---- MODULE Spec2Model ----
(***************************************************************************)
(* A model of src/app/main.py: the WhatsApp order webhook.  One inbound    *)
(* message is handled at a time (the handler is an `async def` whose body  *)
(* holds no await after `request.form()`, so one process never interleaves *)
(* two handlers); every call to a collaborator (the Sheets API) is one     *)
(* step whose outcome the environment chooses.                             *)
(*                                                                         *)
(* Text is a sequence of code points.  An ASCII code point is written as   *)
(* itself, any other as "U+XXXX": e with an acute accent is "U+00E9".      *)
(* A Python float is held as an integer count of halves: every price of    *)
(* the modelled sheets is a multiple of 0.5, which binary floating point   *)
(* represents exactly, so `*` on them is exact.                            *)
(***************************************************************************)
EXTENDS Integers, Sequences, FiniteSets, TLC

VARIABLES
    orders,        \* the rows of the Orders sheet, oldest first
    utc,           \* the host clock: seconds of the naive UTC wall time
    zone,          \* the host's local time zone
    pc,            \* where the handler stands
    incoming_msg,  \* line 171
    phone,         \* line 172
    config,        \* line 175
    number,        \* line 204
    qty,           \* line 205
    rows,          \* line 81: the Products values the API returned, once it has
    products,      \* lines 186 and 210
    exc,           \* the exception raised while handling, if any
    response       \* what the handler hands back to the transport layer

vars == <<orders, utc, zone, pc, incoming_msg, phone, config, number, qty,
          rows, products, exc, response>>

-----------------------------------------------------------------------------
(* Python's str and number operations, as far as the handler uses them.    *)

Whitespace == {" ", "\t", "\n", "\r"}

Digits == <<"0", "1", "2", "3", "4", "5", "6", "7", "8", "9">>

UpperCase ==
    <<"A", "B", "C", "D", "E", "F", "G", "H", "I", "J", "K", "L", "M", "N", "O", "P", "Q",
      "R", "S", "T", "U", "V", "W", "X", "Y", "Z", "U+00C9">>

LowerCase ==
    <<"a", "b", "c", "d", "e", "f", "g", "h", "i", "j", "k", "l", "m", "n", "o", "p", "q",
      "r", "s", "t", "u", "v", "w", "x", "y", "z", "U+00E9">>

IndexOf(c, seq) ==
    IF \E i \in 1..Len(seq) : seq[i] = c
    THEN CHOOSE i \in 1..Len(seq) : seq[i] = c /\ \A j \in 1..(i - 1) : seq[j] # c
    ELSE 0

\* str.lower() of one code point
LowerChar(c) == IF IndexOf(c, UpperCase) > 0 THEN LowerCase[IndexOf(c, UpperCase)] ELSE c

\* str.lower()
Lower(s) == [i \in 1..Len(s) |-> LowerChar(s[i])]

\* str.strip(): leading and trailing whitespace removed
Strip(s) ==
    LET keep == {i \in 1..Len(s) : s[i] \notin Whitespace}
    IN  IF keep = {} THEN <<>>
        ELSE LET lo == CHOOSE i \in keep : \A j \in keep : i <= j
                 hi == CHOOSE i \in keep : \A j \in keep : j <= i
             IN  SubSeq(s, lo, hi)

\* the first index at which sub occurs in s, 0 when it does not: str.find() + 1
Find(sub, s) ==
    LET at == {i \in 1..(Len(s) - Len(sub) + 1) : SubSeq(s, i, i + Len(sub) - 1) = sub}
    IN  IF at = {} THEN 0 ELSE CHOOSE i \in at : \A j \in at : i <= j

\* `sub in s`
Contains(sub, s) == Find(sub, s) > 0

\* s.split(sep, 1) for a one-code-point sep that occurs in s: the two parts
\* around the first occurrence
SplitFirst(s, sep) ==
    LET i == Find(sep, s)
    IN  [left |-> SubSeq(s, 1, i - 1), right |-> SubSeq(s, i + Len(sep), Len(s))]

Concat(parts) ==
    LET RECURSIVE go(_)
        go(i) == IF i > Len(parts) THEN <<>> ELSE parts[i] \o go(i + 1)
    IN  go(1)

IsDigits(s) == Len(s) > 0 /\ \A i \in 1..Len(s) : IndexOf(s[i], Digits) > 0

DigitsValue(s) ==
    LET RECURSIVE go(_)
        go(i) == IF i = 0 THEN 0 ELSE 10 * go(i - 1) + (IndexOf(s[i], Digits) - 1)
    IN  go(Len(s))

\* int(s): surrounding whitespace and one sign allowed, then decimal digits;
\* anything else is a ValueError (ok = FALSE)
PyInt(s) ==
    LET t    == Strip(s)
        sign == IF Len(t) > 0 /\ t[1] \in {"+", "-"} THEN t[1] ELSE ""
        body == IF sign = "" THEN t ELSE Tail(t)
    IN  IF IsDigits(body)
        THEN [ok |-> TRUE, val |-> IF sign = "-" THEN -DigitsValue(body) ELSE DigitsValue(body)]
        ELSE [ok |-> FALSE, val |-> 0]

\* float(s) on the price strings of the modelled sheets, in halves: whitespace
\* and one sign allowed, digits, and an optional fraction of "", "0" or "5"
\* (the digits may be missing before a fraction);
\* anything else is a ValueError (ok = FALSE)
PyFloat(s) ==
    LET t     == Strip(s)
        sign  == IF Len(t) > 0 /\ t[1] \in {"+", "-"} THEN t[1] ELSE ""
        body  == IF sign = "" THEN t ELSE Tail(t)
        dot   == Find(<<".">>, body)
        whole == IF dot = 0 THEN body ELSE SubSeq(body, 1, dot - 1)
        frac  == IF dot = 0 THEN <<>> ELSE SubSeq(body, dot + 1, Len(body))
        mag   == 2 * DigitsValue(whole) + (IF frac = <<"5">> THEN 1 ELSE 0)
    IN  IF (IsDigits(whole) \/ (whole = <<>> /\ frac # <<>>)) /\ frac \in {<<>>, <<"0">>, <<"5">>}
        THEN [ok |-> TRUE, val |-> IF sign = "-" THEN -mag ELSE mag]
        ELSE [ok |-> FALSE, val |-> 0]

\* str(n) of an int
StrInt(n) ==
    LET RECURSIVE go(_)
        go(m) == IF m < 10 THEN <<Digits[m + 1]>> ELSE go(m \div 10) \o <<Digits[(m % 10) + 1]>>
    IN  IF n < 0 THEN <<"-">> \o go(-n) ELSE go(n)

\* str(x) of a float held in halves: 5 halves is "2.5", 6 halves is "3.0"
StrFloat(h) ==
    LET m == IF h < 0 THEN -h ELSE h
    IN  (IF h < 0 THEN <<"-">> ELSE <<>>)
        \o StrInt(m \div 2) \o <<".">> \o (IF m % 2 = 0 THEN <<"0">> ELSE <<"5">>)

\* json.dumps of a str with ensure_ascii=False
JsonStr(s) ==
    LET esc(c) == CASE c = "\"" -> <<"\\", "\"">>
                    [] c = "\\" -> <<"\\", "\\">>
                    [] c = "\n" -> <<"\\", "n">>
                    [] OTHER -> <<c>>
    IN  <<"\"">> \o Concat([i \in 1..Len(s) |-> esc(s[i])]) \o <<"\"">>

-----------------------------------------------------------------------------
(* The texts of the handler.                                               *)

\* line 181
Greetings ==
    {<<"h", "o", "l", "a">>,
     <<"b", "u", "e", "n", "a", "s">>,
     <<"b", "u", "e", "n", "o", "s", " ", "d", "i", "a", "s">>,
     <<"b", "u", "e", "n", "a", "s", " ", "t", "a", "r", "d", "e", "s">>,
     <<"b", "u", "e", "n", "a", "s", " ", "n", "o", "c", "h", "e", "s">>}

MenuWord == <<"m", "e", "n", "u">>

QueVendenAccented == <<"q", "u", "U+00E9", " ", "v", "e", "n", "d", "e", "n">>

QueVenden == <<"q", "u", "e", " ", "v", "e", "n", "d", "e", "n">>

\* line 177
ConfigErrorText ==
    <<"U+26A0", "U+FE0F", " ", "E", "r", "r", "o", "r", " ", "d", "e", " ", "c", "o", "n", "f",
      "i", "g", "u", "r", "a", "c", "i", "U+00F3", "n", " ", "d", "e", "l", " ", "n", "e", "g",
      "o", "c", "i", "o", ".", " ", "R", "e", "v", "i", "s", "a", " ", "B", "u", "s", "i", "n",
      "e", "s", "s", "C", "o", "n", "f", "i", "g", ".">>

\* line 188
NoProductsText ==
    <<"U+26A0", "U+FE0F", " ", "N", "o", " ", "h", "a", "y", " ", "p", "r", "o", "d", "u", "c",
      "t", "o", "s", " ", "a", "c", "t", "i", "v", "o", "s", " ", "e", "n", " ", "l", "a", " ",
      "h", "o", "j", "a", " ", "P", "r", "o", "d", "u", "c", "t", "s", ".">>

\* line 191
MenuGreetingText ==
    <<"U+1F44B", " ", "H", "o", "l", "a", ",", " ", "b", "i", "e", "n", "v", "e", "n", "i",
      "d", "o", " ", "a", " ">>

\* line 192
MenuIntroText ==
    <<"E", "s", "t", "o", " ", "e", "s", " ", "l", "o", " ", "q", "u", "e", " ", "t", "e", "n",
      "e", "m", "o", "s", " ", "h", "o", "y", ":", "\n", "\n">>

\* line 195
MenuDashText ==
    <<" ", "U+2014", " ">>

\* line 197
MenuHintText ==
    <<"\n", "P", "a", "r", "a", " ", "o", "r", "d", "e", "n", "a", "r", ",", " ", "e", "s",
      "c", "r", "i", "b", "e", " ", "p", "o", "r", " ", "e", "j", "e", "m", "p", "l", "o", ":",
      " ", "2", "0", "0", "1", " ", "x", " ", "2">>

\* line 208
InvalidQuantityText ==
    <<"L", "a", " ", "c", "a", "n", "t", "i", "d", "a", "d", " ", "d", "e", "b", "e", " ", "s",
      "e", "r", " ", "m", "a", "y", "o", "r", " ", "a", " ", "0", ".", " ", "E", "j", "e", "m",
      "p", "l", "o", ":", " ", "2", "0", "0", "1", " ", "x", " ", "2">>

\* line 214
ProductNotFoundText ==
    <<"P", "r", "o", "d", "u", "c", "t", "o", " ", "n", "o", " ", "e", "n", "c", "o", "n", "t",
      "r", "a", "d", "o", ".", " ", "E", "s", "c", "r", "i", "b", "e", " ", "M", "E", "N", "U",
      " ", "p", "a", "r", "a", " ", "v", "e", "r", " ", "o", "p", "c", "i", "o", "n", "e", "s",
      ".">>

\* line 229
ReceivedText ==
    <<"U+2705", " ", "U+00A1", "P", "e", "d", "i", "d", "o", " ", "r", "e", "c", "i", "b", "i",
      "d", "o", "!", "\n">>

\* line 231
TotalText ==
    <<"T", "o", "t", "a", "l", ":", " ">>

\* line 232
OrderNoText ==
    <<"P", "e", "d", "i", "d", "o", ":", " ", "#">>

\* line 233
ThanksText ==
    <<"T", "e", " ", "a", "v", "i", "s", "a", "r", "e", "m", "o", "s", " ", "c", "u", "a", "n",
      "d", "o", " ", "e", "s", "t", "U+00E9", " ", "l", "i", "s", "t", "o", " ", "U+1F64C">>

\* line 238
FormatErrorText ==
    <<"F", "o", "r", "m", "a", "t", "o", " ", "i", "n", "v", "U+00E1", "l", "i", "d", "o", ".",
      " ", "U", "s", "a", ":", " ", "2", "0", "0", "1", " ", "x", " ", "2">>

\* line 240
ProcessingErrorText ==
    <<"O", "c", "u", "r", "r", "i", "U+00F3", " ", "u", "n", " ", "e", "r", "r", "o", "r", " ",
      "p", "r", "o", "c", "e", "s", "a", "n", "d", "o", " ", "t", "u", " ", "p", "e", "d", "i",
      "d", "o", ".", " ", "I", "n", "t", "e", "n", "t", "a", " ", "d", "e", " ", "n", "u", "e",
      "v", "o", ".">>

\* line 242
FallbackText ==
    <<"E", "s", "c", "r", "i", "b", "e", " ", "M", "E", "N", "U", " ", "p", "a", "r", "a", " ",
      "v", "e", "r", " ", "o", "p", "c", "i", "o", "n", "e", "s", ",", " ", "o", " ", "e", "n",
      "v", "U+00ED", "a", " ", "t", "u", " ", "p", "e", "d", "i", "d", "o", " ", "(", "e", "j",
      ":", " ", "2", "0", "0", "1", " ", "x", " ", "2", ")", ".">>

-----------------------------------------------------------------------------
(* What the environment supplies: the inbound form, the two sheets the     *)
(* Sheets API returns, the clock and the host's time zone.                 *)

\* a form field that may be missing: form.get(key) is None when it is
Some(v) == [some |-> TRUE, v |-> v]

Nothing == [some |-> FALSE, v |-> <<>>]

\* `form.get(key) or ""`
OrEmpty(field) == IF field.some THEN field.v ELSE <<>>

BodyMenu == <<"M", "E", "N", "U">>

BodyHola == <<" ", "H", "o", "l", "a", " ">>

BodyMenuX == <<"m", "e", "n", "u", " ", "x", " ", "2">>

BodyQueVendenAccented == <<"U+00BF", "Q", "u", "U+00E9", " ", "v", "e", "n", "d", "e", "n", "?">>

BodyQueVenden == <<"q", "u", "e", " ", "v", "e", "n", "d", "e", "n", " ", "h", "o", "y">>

BodyTaco3 == <<"1", " ", "x", " ", "3">>

BodyBurrito2 == <<" ", "2", "0", "0", "1", " ", " ", " ", "X", " ", " ", " ", "2", " ">>

BodyTaco0 == <<"1", " ", "x", " ", "0">>

BodyUnknownNeg == <<"9", "9", "9", "9", " ", "x", " ", "-", "1">>

BodyUnknown1 == <<"9", "9", "9", "9", " ", "x", " ", "1">>

BodyInactive == <<"7", " ", "x", " ", "1">>

BodyBadPrice == <<"8", " ", "x", " ", "2">>

BodyInactiveZero == <<"7", " ", "x", " ", "0">>

BodyWords == <<"1", " ", "x", " ", "d", "o", "s">>

BodyThanks == <<"g", "r", "a", "c", "i", "a", "s">>

PhoneA == <<"w", "h", "a", "t", "s", "a", "p", "p", ":", "+", "5", "2", "1", "5", "5", "5", "0", "0", "0", "1">>

\* the inbound forms of the model, {Body, From}: each text from one phone, one
\* order without a From field, one message without a Body field
Forms ==
    {[Body |-> Some(b), From |-> Some(PhoneA)] :
        b \in {BodyMenu, BodyHola, BodyMenuX, BodyQueVendenAccented, BodyQueVenden, BodyTaco3,
               BodyTaco0, BodyUnknownNeg, BodyUnknown1, BodyInactive, BodyBadPrice,
               BodyInactiveZero, BodyWords, BodyThanks}}
    \cup {[Body |-> Some(BodyBurrito2), From |-> Nothing],
          [Body |-> Nothing, From |-> Some(PhoneA)]}

\* BusinessConfig!A2:F2 as the API returns it: no values, a short row, a full row
ConfigSheets ==
    {<<>>,
     <<<<<<"T", "a", "c", "o", " ", "S", "h", "o", "p">>, <<" ", "P", "i", "c", "k", "u", "p", " ">>, <<"$">>>>>>,
     <<<<<<"L", "a", " ", "T", "i", "e", "n", "d", "a">>, <<"b", "o", "t", "h">>, <<>>, <<"9", "-", "1", "8">>, <<"C", "a", "l", "l", "e", " ", "1">>, <<"o", "c", "h", "o">>>>>>}

\* an active product, cells padded with blanks
RowTaco ==
    <<<<"p", "1">>,
      <<" ", "1", " ">>,
      <<" ", "T", "a", "c", "o", " ">>,
      <<"2", ".", "5">>,
      <<" ", "T", "R", "U", "E", " ">>>>

\* an active product with a sixth cell
RowBurrito ==
    <<<<"p", "2">>,
      <<"2", "0", "0", "1">>,
      <<"B", "u", "r", "r", "i", "t", "o">>,
      <<"9", ".", "5">>,
      <<"t", "r", "u", "e">>,
      <<"c", "a", "r", "n", "e">>>>

\* an inactive product
RowAgua ==
    <<<<"p", "3">>,
      <<"7">>,
      <<"A", "g", "u", "a">>,
      <<"3">>,
      <<"f", "a", "l", "s", "e">>>>

\* an active product whose price float() rejects
RowJugo ==
    <<<<"p", "4">>,
      <<"8">>,
      <<"J", "u", "g", "o">>,
      <<"2", ",", "5">>,
      <<"t", "r", "u", "e">>>>

\* a row the API cut after its fourth cell
RowFlan ==
    <<<<"p", "5">>,
      <<"9">>,
      <<"F", "l", "a", "n">>,
      <<"4">>>>

\* an inactive product with the number of an active one
RowBurritoViejo ==
    <<<<"p", "6">>,
      <<"2", "0", "0", "1">>,
      <<"B", "u", "r", "r", "i", "t", "o", " ", "v", "i", "e", "j", "o">>,
      <<"8">>,
      <<"F", "A", "L", "S", "E">>>>

\* a second active product numbered 1
RowTorta ==
    <<<<"p", "7">>,
      <<"1">>,
      <<"T", "o", "r", "t", "a">>,
      <<"4", ".", "5">>,
      <<"t", "r", "u", "e">>>>

\* Products!A2:H as the API returns it
ProductSheets ==
    {<<RowTaco, RowBurrito, RowAgua, RowJugo, RowFlan, RowBurritoViejo, RowTorta>>,
     <<RowAgua, RowJugo>>,
     <<>>}

\* the exceptions a call to the Sheets API raises (json.JSONDecodeError, raised
\* on a response body that is not JSON, is a ValueError)
ErrorKinds == {"ValueError", "HttpError"}

-----------------------------------------------------------------------------
(* The bounds of the model.                                                *)

\* the Orders sheet holds at most this many rows
MaxOrders == 2

\* the clock advances at most this many seconds
MaxTicks == 1

\* line 56
DefaultPageSize == 8

\* the wall second the model starts at: 2026-03-08 02:59:59
StartInstant == 1772938799

-----------------------------------------------------------------------------
(* The collaborators' results, as the code computes them from the API's.   *)

NoConfig ==
    [present |-> FALSE, business_name |-> <<>>, order_mode |-> <<>>, currency_symbol |-> <<>>,
     hours |-> <<>>, address |-> <<>>, menu_page_size |-> 0]

\* lines 53-54: the row padded to six cells
PadRow(row) == row \o [i \in 1..(6 - Len(row)) |-> <<>>]

\* lines 56-60: the page size, 8 when the cell is empty or no integer
MenuPageSize(cell) == IF cell # <<>> /\ PyInt(cell).ok THEN PyInt(cell).val ELSE DefaultPageSize

\* lines 47-69: what get_business_config returns for the API's values
get_business_config(values) ==
    IF values = <<>> THEN NoConfig
    ELSE LET row == PadRow(values[1])
         IN  [present |-> TRUE,
              business_name |-> row[1],
              order_mode |-> Lower(Strip(row[2])),
              currency_symbol |-> IF row[3] # <<>> THEN row[3] ELSE <<"$">>,
              hours |-> row[4],
              address |-> row[5],
              menu_page_size |-> MenuPageSize(row[6])]

\* lines 87-103, without the test of the active cell (lines 101-103)
KeepsRow_IgnoresActive(row) == Len(row) >= 5 /\ PyFloat(row[4]).ok

\* lines 87-103: the rows the loop keeps: five cells at least, a price float()
\* accepts, and an active cell that reads "true"
KeepsRow(row) ==
    /\ Len(row) >= 5
    /\ PyFloat(row[4]).ok
    /\ Lower(Strip(row[5])) = <<"t", "r", "u", "e">>

\* lines 105-112
ProductOf(row) ==
    [product_id |-> row[1], number |-> Strip(row[2]), name |-> Strip(row[3]),
     price |-> PyFloat(row[4]).val]

\* lines 81-114: what get_products returns for the API's rows
get_products(values) ==
    LET kept == SelectSeq(values, KeepsRow)
    IN  [i \in 1..Len(kept) |-> ProductOf(kept[i])]

\* line 122: datetime.timestamp() of a naive datetime reads it as local time
\* (in a gap of the local clock, with the offset in force before the gap)
Timestamp(wall, tz) == wall - (IF wall < tz.transition THEN tz.before ELSE tz.after)

\* line 122
OrderId(wall, tz) == StrInt(Timestamp(wall, tz))

\* line 129: json.dumps(items, ensure_ascii=False) of the one-item list
JsonDumps(items) ==
    LET item == items[1]
    IN  <<"[", "{", "\"", "p", "r", "o", "d", "u", "c", "t", "_", "i", "d", "\"", ":", " ">> \o JsonStr(item.product_id)
        \o <<",", " ", "\"", "n", "a", "m", "e", "\"", ":", " ">> \o JsonStr(item.name)
        \o <<",", " ", "\"", "q", "t", "y", "\"", ":", " ">> \o StrInt(item.qty)
        \o <<",", " ", "\"", "p", "r", "i", "c", "e", "\"", ":", " ">> \o StrFloat(item.price)
        \o <<"}", "]">>

\* lines 124-137: the row save_order appends; `now` (line 119) is the wall
\* second its ISO-8601 text names
OrderRow(order_id, ph, items, total, now) ==
    <<order_id, ph, JsonDumps(items), total, <<"n", "e", "w">>, <<>>, <<>>, now>>

\* lines 139-149, writing at Orders!A2 where it should append after the last row
AppendOrder_Overwrite(sheet, row) == <<row>>

\* lines 139-149: values().append adds the row after the sheet's last
AppendOrder(sheet, row) == Append(sheet, row)

\* lines 159-165: the TwiML document, by its one Message
twiml_response(msg) == [status |-> "returned", media_type |-> "application/xml", message |-> msg]

\* no response yet
Pending == [status |-> "pending", media_type |-> "", message |-> <<>>]

\* the handler ended by an exception, which the transport layer receives
Raised == [status |-> "raised", media_type |-> "", message |-> <<>>]

NoExc == [kind |-> "none", origin |-> "none"]

-----------------------------------------------------------------------------
(* The handler's own computations.                                         *)

\* lines 180-185, with `==` for the `in` of line 182
IsMenuIntent_ExactMenu(msg) ==
    \/ msg \in Greetings
    \/ msg = MenuWord
    \/ Contains(QueVendenAccented, msg)
    \/ Contains(QueVenden, msg)

\* lines 180-185
IsMenuIntent(msg) ==
    \/ msg \in Greetings
    \/ Contains(MenuWord, msg)
    \/ Contains(QueVendenAccented, msg)
    \/ Contains(QueVenden, msg)

\* line 195
MenuLine(p, cfg) == <<"-", " ">> \o p.name \o MenuDashText \o cfg.currency_symbol \o StrFloat(p.price) \o <<"\n">>

\* lines 191-197
MenuText(cfg, prods) ==
    MenuGreetingText \o cfg.business_name \o <<".", "\n", "\n">>
    \o MenuIntroText
    \o Concat([i \in 1..Len(prods) |-> MenuLine(prods[i], cfg)])
    \o MenuHintText

\* line 211, falling back to the first product when none has the number
SelectedIndex_Fallback(prods, num) ==
    LET at == {i \in 1..Len(prods) : prods[i].number = num}
    IN  IF at = {} THEN (IF prods = <<>> THEN 0 ELSE 1)
        ELSE CHOOSE i \in at : \A j \in at : i <= j

\* line 211: the first product with that number, 0 when there is none
SelectedIndex(prods, num) ==
    LET at == {i \in 1..Len(prods) : prods[i].number = num}
    IN  IF at = {} THEN 0 ELSE CHOOSE i \in at : \A j \in at : i <= j

\* line 216, without the quantity
Total_UnitPrice(selected, q) == selected.price

\* line 216
Total(selected, q) == selected.price * q

\* lines 217-224
Items(selected, q) ==
    <<[product_id |-> selected.product_id, name |-> selected.name, qty |-> q,
       price |-> selected.price]>>

\* lines 228-234
ConfirmationText(q, selected, cfg, total, order_id) ==
    ReceivedText
    \o StrInt(q) \o <<" ", "x", " ">> \o selected.name \o <<"\n">>
    \o TotalText \o cfg.currency_symbol \o StrFloat(total) \o <<"\n">>
    \o OrderNoText \o order_id \o <<"\n", "\n">>
    \o ThanksText

\* lines 237-240: the response of the except clause that catches the exception
Caught(kind) ==
    IF kind = "ValueError" THEN twiml_response(FormatErrorText)
    ELSE twiml_response(ProcessingErrorText)

-----------------------------------------------------------------------------
(* The state machine.                                                      *)

\* the host's time zone: UTC, or New York, whose clocks skip from 02:00 to
\* 03:00 on 2026-03-08 (offsets and wall time in seconds)
Zones ==
    {[name |-> "UTC", transition |-> 0, before |-> 0, after |-> 0],
     [name |-> "America/New_York", transition |-> 1772938800, before |-> -18000,
      after |-> -14400]}

Init ==
    /\ orders = <<>>
    /\ utc = StartInstant
    /\ zone \in Zones
    /\ pc = "idle"
    /\ incoming_msg = <<>>
    /\ phone = <<>>
    /\ config = NoConfig
    /\ number = <<>>
    /\ qty = [ok |-> FALSE, val |-> 0]
    /\ rows = Nothing
    /\ products = <<>>
    /\ exc = NoExc
    /\ response = Pending

\* the handler returns twiml_response(msg)
Return(msg) == response' = twiml_response(msg) /\ pc' = "done"

\* lines 170-172: a message arrives and the form is read
Webhook_Form ==
    /\ pc \in {"idle", "done"}
    /\ \E form \in Forms :
        /\ incoming_msg' = Lower(Strip(OrEmpty(form.Body)))
        /\ phone' = OrEmpty(form.From)
    /\ pc' = "get_business_config"
    /\ config' = NoConfig
    /\ number' = <<>>
    /\ qty' = [ok |-> FALSE, val |-> 0]
    /\ rows' = Nothing
    /\ products' = <<>>
    /\ exc' = NoExc
    /\ response' = Pending
    /\ UNCHANGED <<orders, utc, zone>>

\* line 207, with `<` for `<=`
InvalidQuantity_Negative(q) == q < 0

\* line 207
InvalidQuantity(q) == q <= 0

\* lines 203-208, once the text holds an "x"
ParseOrder ==
    LET parts == SplitFirst(incoming_msg, <<"x">>)
        q     == PyInt(Strip(parts.right))
    IN  /\ number' = Strip(parts.left)
        /\ qty' = q
        /\ IF ~q.ok
           THEN exc' = [kind |-> "ValueError", origin |-> "int"] /\ Return(FormatErrorText)
           ELSE /\ exc' = NoExc
                /\ IF InvalidQuantity(q.val)
                   THEN Return(InvalidQuantityText)
                   ELSE response' = Pending /\ pc' = "order_get_products"

\* lines 180-208 and 242: the intent, once the configuration is there
Classify ==
    IF IsMenuIntent(incoming_msg)
    THEN pc' = "menu_get_products" /\ UNCHANGED <<number, qty, exc, response>>
    ELSE IF Contains(<<"x">>, incoming_msg)
         THEN ParseOrder
         ELSE Return(FallbackText) /\ UNCHANGED <<number, qty, exc>>

\* lines 175-177, then the handler up to its next call of a collaborator
Webhook_Config ==
    /\ pc = "get_business_config"
    /\ \/ \E kind \in ErrorKinds :
            /\ exc' = [kind |-> kind, origin |-> "get_business_config"]
            /\ response' = Raised
            /\ pc' = "done"
            /\ UNCHANGED <<config, number, qty>>
       \/ \E values \in ConfigSheets :
            /\ config' = get_business_config(values)
            /\ IF ~config'.present
               THEN Return(ConfigErrorText) /\ UNCHANGED <<number, qty, exc>>
               ELSE Classify
    /\ UNCHANGED <<orders, utc, zone, incoming_msg, phone, rows, products>>

\* lines 186-198
Webhook_Menu ==
    /\ pc = "menu_get_products"
    /\ \/ \E kind \in ErrorKinds :
            /\ exc' = [kind |-> kind, origin |-> "get_products"]
            /\ response' = Raised
            /\ pc' = "done"
            /\ UNCHANGED <<rows, products>>
       \/ \E values \in ProductSheets :
            /\ rows' = Some(values)
            /\ products' = get_products(values)
            /\ IF products' = <<>>
               THEN Return(NoProductsText)
               ELSE Return(MenuText(config, products'))
            /\ UNCHANGED exc
    /\ UNCHANGED <<orders, utc, zone, incoming_msg, phone, config, number, qty>>

\* lines 210-214, and 237-240 when get_products raises
Webhook_Order ==
    /\ pc = "order_get_products"
    /\ \/ \E kind \in ErrorKinds :
            /\ exc' = [kind |-> kind, origin |-> "get_products"]
            /\ response' = Caught(kind)
            /\ pc' = "done"
            /\ UNCHANGED <<rows, products>>
       \/ \E values \in ProductSheets :
            /\ rows' = Some(values)
            /\ products' = get_products(values)
            /\ IF SelectedIndex(products', number) = 0
               THEN Return(ProductNotFoundText)
               ELSE response' = Pending /\ pc' = "save_order"
            /\ UNCHANGED exc
    /\ UNCHANGED <<orders, utc, zone, incoming_msg, phone, config, number, qty>>

\* lines 216-235 with save_order (117-151), and 237-240 when save_order raises;
\* the two reads of the clock (lines 119 and 122) fall in the same second, and
\* the append succeeds or fails whole
Webhook_Save ==
    /\ pc = "save_order"
    /\ LET selected == products[SelectedIndex(products, number)]
           total    == Total(selected, qty.val)
           items    == Items(selected, qty.val)
           order_id == OrderId(utc, zone)
       IN  \/ \E kind \in ErrorKinds :
                /\ exc' = [kind |-> kind, origin |-> "save_order"]
                /\ response' = Caught(kind)
                /\ UNCHANGED orders
           \/ /\ Len(orders) < MaxOrders
              /\ orders' = AppendOrder(orders, OrderRow(order_id, phone, items, total, utc))
              /\ response' = twiml_response(ConfirmationText(qty.val, selected, config, total, order_id))
              /\ UNCHANGED exc
    /\ pc' = "done"
    /\ UNCHANGED <<utc, zone, incoming_msg, phone, config, number, qty, rows, products>>

\* a second passes
Tick ==
    /\ utc < StartInstant + MaxTicks
    /\ utc' = utc + 1
    /\ UNCHANGED <<orders, zone, pc, incoming_msg, phone, config, number, qty, rows, products,
                   exc, response>>

Next ==
    \/ Webhook_Form
    \/ Webhook_Config
    \/ Webhook_Menu
    \/ Webhook_Order
    \/ Webhook_Save
    \/ Tick

Spec == Init /\ [][Next]_vars

-----------------------------------------------------------------------------
(* The claims.  Their premises are stated on the message text and on the   *)
(* API's rows, apart from the operators of the handler.                    *)

Done == pc = "done"

Replied(text) == Done /\ response = twiml_response(text)

\* the MenuRequest rules of the specification
MenuRule(msg) ==
    \/ msg \in {<<"h", "o", "l", "a">>, <<"b", "u", "e", "n", "a", "s">>,
                <<"b", "u", "e", "n", "o", "s", " ", "d", "i", "a", "s">>,
                <<"b", "u", "e", "n", "a", "s", " ", "t", "a", "r", "d", "e", "s">>,
                <<"b", "u", "e", "n", "a", "s", " ", "n", "o", "c", "h", "e", "s">>}
    \/ \E i \in 1..Len(msg) : \E j \in i..Len(msg) :
          SubSeq(msg, i, j) \in {<<"m", "e", "n", "u">>,
                                 <<"q", "u", "U+00E9", " ", "v", "e", "n", "d", "e", "n">>,
                                 <<"q", "u", "e", " ", "v", "e", "n", "d", "e", "n">>}

\* the numberToken of a message: what stands before its first "x", trimmed
TokenOf(msg) == Strip(SplitFirst(msg, <<"x">>).left)

\* the quantity of a message: what stands after its first "x", as an integer
QuantityOf(msg) == PyInt(Strip(SplitFirst(msg, <<"x">>).right))

\* msg is an order command (numberToken, quantity) and the handler, its
\* configuration cfg loaded, has come to it
IsCommand(cfg, msg) ==
    /\ cfg.present
    /\ ~MenuRule(msg)
    /\ Contains(<<"x">>, msg)
    /\ QuantityOf(msg).ok

CommandParsed == IsCommand(config, incoming_msg)

CommandToken == TokenOf(incoming_msg)

CommandQuantity == QuantityOf(incoming_msg).val

LastOrder == orders[Len(orders)]

\* a catalog holds no product with that number
NoProductNumbered(prods, num) == \A i \in 1..Len(prods) : prods[i].number # num

\* C1: no failure of a collaborator escapes the handler: every message ends
\* in a rendered text response.
C1_NoExceptionEscapes == Done => response.status = "returned"

\* C2: an order command whose quantity is <= 0 ends in InvalidQuantity, for
\* any numberToken, and the catalog has not been fetched when it does.
C2_InvalidQuantityFirst ==
    (CommandParsed /\ CommandQuantity <= 0) =>
        /\ Replied(InvalidQuantityText)
        /\ rows = Nothing
        /\ exc = NoExc

\* an order for product number 1, which the catalog may hold, with quantity 0
C2_Witness == Replied(InvalidQuantityText) /\ CommandQuantity = 0 /\ CommandToken = <<"1">>

\* the token numbers no product of the catalog: of the one the handler
\* fetched, or, when it fetched none, of any the API may return
C3_TokenUnknown ==
    IF rows.some THEN NoProductNumbered(get_products(rows.v), CommandToken)
    ELSE \A values \in ProductSheets : NoProductNumbered(get_products(values), CommandToken)

\* C3 as stated: an order command whose numberToken numbers no product of the
\* catalog ends in ProductNotFound, whatever its quantity.
C3_NotFoundAnyQuantity ==
    (Done /\ CommandParsed /\ exc = NoExc /\ C3_TokenUnknown) => Replied(ProductNotFoundText)

\* C3 as amended: an order command with a quantity > 0 whose numberToken
\* numbers no product of the fetched catalog (the empty one included) ends in
\* ProductNotFound; the handler never goes on to save an order for it.
C3_NotFoundPositiveQuantity ==
    (CommandParsed /\ CommandQuantity > 0 /\ rows.some
       /\ NoProductNumbered(get_products(rows.v), CommandToken)) =>
        Replied(ProductNotFoundText)

\* "9999 x 1" against a catalog that holds products
C3_Witness ==
    Replied(ProductNotFoundText) /\ CommandParsed /\ CommandToken = <<"9", "9", "9", "9">> /\ products # <<>>
      /\ CommandQuantity = 1

\* how a MenuRequest ends
C4_MenuOutcome ==
    IF exc # NoExc THEN response = Raised
    ELSE IF ~config.present THEN response = twiml_response(ConfigErrorText)
    ELSE IF products = <<>> THEN response = twiml_response(NoProductsText)
    ELSE response = twiml_response(MenuText(config, products))

\* C4: a message that matches a MenuRequest rule is handled as a MenuRequest
\* even when it holds an "x" and a quantity: it is never parsed as an order,
\* never reaches the order branch and never appends an order.
C4_MenuFirst ==
    [][MenuRule(incoming_msg') =>
         /\ pc' \notin {"order_get_products", "save_order"}
         /\ ~qty'.ok
         /\ orders' = orders
         /\ (pc' = "done" => C4_MenuOutcome')]_vars

\* "menu x 2" answered with the menu
C4_Witness ==
    /\ Done
    /\ incoming_msg = <<"m", "e", "n", "u", " ", "x", " ", "2">>
    /\ products # <<>>
    /\ response = twiml_response(MenuText(config, products))

\* the order row and the confirmation the claim describes, for product p
C5_RecordFor(p) ==
    /\ LastOrder[2] = phone
    /\ LastOrder[3] = JsonDumps(<<[product_id |-> p.product_id, name |-> p.name,
                                  qty |-> CommandQuantity, price |-> p.price]>>)
    /\ LastOrder[4] = p.price * CommandQuantity
    /\ LastOrder[5] = <<"n", "e", "w">>
    /\ LastOrder[6] = <<>>
    /\ LastOrder[7] = <<>>
    /\ response.status = "returned"
    /\ Contains(StrInt(CommandQuantity) \o <<" ", "x", " ">> \o p.name \o <<"\n">>, response.message)
    /\ Contains(TotalText \o config.currency_symbol \o StrFloat(p.price * CommandQuantity) \o <<"\n">>,
                response.message)
    /\ Contains(OrderNoText \o LastOrder[1] \o <<"\n">>, response.message)

\* C5: an order command with a quantity q > 0 for the number of an active
\* product p, once saved, is the row {id, phone, one line item of p and q,
\* price(p) * q, "new", "", ""}, and the confirmation reports q, the name, the
\* total and that row's id.
C5_OrderRecord ==
    (Done /\ CommandParsed /\ CommandQuantity > 0 /\ rows.some /\ exc = NoExc
       /\ ~NoProductNumbered(get_products(rows.v), CommandToken)) =>
        /\ orders # <<>>
        /\ \E i \in 1..Len(get_products(rows.v)) :
              /\ get_products(rows.v)[i].number = CommandToken
              /\ C5_RecordFor(get_products(rows.v)[i])

\* price 9.5 and quantity 2: the total is 19.0 (38 halves)
C5_Witness ==
    /\ Done
    /\ orders # <<>>
    /\ CommandParsed
    /\ CommandQuantity = 2
    /\ LastOrder[4] = 38
    /\ LastOrder[2] = <<>>
    /\ Contains(<<"$", "1", "9", ".", "0">>, response.message)

\* C6: a failure of getActiveProducts or appendOrder, of whatever kind, after
\* the message was parsed into a command with a quantity > 0 ends in the
\* generic processing error.
C6_GenericOnFailure ==
    (Done /\ CommandParsed /\ CommandQuantity > 0 /\ exc.origin \in {"get_products", "save_order"}) =>
        response = twiml_response(ProcessingErrorText)

\* a row the specification excludes: an active cell that is not "true" after
\* trim and lowercase (or is missing), or a price that is no number
C7_Excluded(row) ==
    \/ Len(row) < 5
    \/ Lower(Strip(row[5])) # <<"t", "r", "u", "e">>
    \/ ~PyFloat(row[4]).ok

\* num is the number of an excluded row of the sheet and of no other row
C7_ExcludedOnly(sheet, num) ==
    /\ \E i \in 1..Len(sheet) :
          C7_Excluded(sheet[i]) /\ Len(sheet[i]) >= 2 /\ Strip(sheet[i][2]) = num
    /\ \A i \in 1..Len(sheet) :
          (Len(sheet[i]) >= 2 /\ Strip(sheet[i][2]) = num) => C7_Excluded(sheet[i])

\* the token is the number of an excluded row only: in the sheet the handler
\* fetched, or, when it fetched none, in one the API may return
C7_TokenExcludedIn(fetched, token) ==
    IF fetched.some THEN C7_ExcludedOnly(fetched.v, token)
    ELSE \E sheet \in ProductSheets : C7_ExcludedOnly(sheet, token)

C7_TokenExcluded == C7_TokenExcludedIn(rows, CommandToken)

\* C7 as stated: an order command for the number of an excluded row ends in
\* ProductNotFound.
C7_ExcludedRowNotFound ==
    (Done /\ CommandParsed /\ exc = NoExc /\ C7_TokenExcluded) => Replied(ProductNotFoundText)

\* every product of the result comes from a row that is not excluded
C7_ResultFromKeptRows ==
    rows.some =>
        \A i \in 1..Len(products) : \E j \in 1..Len(rows.v) :
            /\ ~C7_Excluded(rows.v[j])
            /\ products[i].product_id = rows.v[j][1]
            /\ products[i].number = Strip(rows.v[j][2])
            /\ products[i].name = Strip(rows.v[j][3])

\* no line of a rendered menu names an excluded row
C7_MenuOmitsExcluded ==
    (Done /\ rows.some /\ MenuRule(incoming_msg) /\ response.status = "returned") =>
        \A j \in 1..Len(rows.v) :
            (C7_Excluded(rows.v[j]) /\ Len(rows.v[j]) >= 3) =>
                ~Contains(<<"-", " ">> \o Strip(rows.v[j][3]) \o MenuDashText, response.message)

\* C7 as amended: an excluded row is never in the result of get_products and
\* never in a rendered menu; an order command with a quantity > 0 for the
\* number of an excluded row only ends in ProductNotFound once the catalog is
\* fetched; and no step of such a command appends an order.
C7_ExcludedRowsNeverOrderable ==
    /\ [](C7_ResultFromKeptRows /\ C7_MenuOmitsExcluded)
    /\ []((CommandParsed /\ CommandQuantity > 0 /\ rows.some
             /\ C7_ExcludedOnly(rows.v, CommandToken)) => Replied(ProductNotFoundText))
    /\ [][(IsCommand(config', incoming_msg')
             /\ C7_TokenExcludedIn(rows', TokenOf(incoming_msg'))) => orders' = orders]_vars

\* "8 x 2": the row numbered 8 is active and its price is "2,5"
C7_Witness ==
    /\ Replied(ProductNotFoundText)
    /\ CommandParsed
    /\ CommandToken = <<"8">>
    /\ \E j \in 1..Len(rows.v) : rows.v[j] = RowJugo
    /\ products # <<>>

\* C8: a rendered menu holds the business name and, for every active product
\* in catalog order, a line "number) name - currencySymbol price".
C8_MenuLinesShowNumber ==
    (Done /\ config.present /\ exc = NoExc /\ MenuRule(incoming_msg) /\ rows.some
       /\ products # <<>>) =>
        /\ Contains(config.business_name, response.message)
        /\ \A i \in 1..Len(products) :
              Contains(products[i].number \o <<")", " ">> \o products[i].name \o <<" ", "-", " ">>
                         \o config.currency_symbol \o StrFloat(products[i].price),
                       response.message)

\* C9: two orders submitted in the same second carry the same orderId, and
\* two submitted in different seconds carry different orderIds that do not
\* decrease (column 8 is the submission instant, column 1 the orderId).
C9_OrderIdsFollowSeconds ==
    \A i \in 1..Len(orders) : \A j \in i..Len(orders) :
        /\ orders[i][8] = orders[j][8] => orders[i][1] = orders[j][1]
        /\ orders[i][8] < orders[j][8] => PyInt(orders[i][1]).val < PyInt(orders[j][1]).val

\* the step ends a message in an order confirmation
C10_Confirms ==
    /\ pc # "done"
    /\ pc' = "done"
    /\ response'.status = "returned"
    /\ Find(ReceivedText, response'.message) = 1

\* C10: the store grows by exactly one row with each message that ends in a
\* confirmation, and no other step changes it; rows already there stay.
C10_AppendOnly ==
    [][/\ C10_Confirms => (Len(orders') = Len(orders) + 1
                             /\ SubSeq(orders', 1, Len(orders)) = orders)
       /\ ~C10_Confirms => orders' = orders]_vars

\* a second order confirmed, the first row still in place
C10_Witness ==
    /\ Done
    /\ Len(orders) = 2
    /\ Find(ReceivedText, response.message) = 1
    /\ orders[1][3] # orders[2][3]

====
